---- MODULE Spec2Model ----
(***************************************************************************)
(* The OfflineVirtualMachine controller of pkg/virt-controller/watch/ovm.go *)
(* as a state machine: the object store (OfflineVirtualMachines and         *)
(* VirtualMachines), the two informer caches that lag behind it, the        *)
(* rate-limited work queue, the expectations store and the worker that      *)
(* runs Execute/execute one key at a time.                                  *)
(*                                                                          *)
(* A reconcile pass is cut at its suspension points (queue Get, the cache   *)
(* reads, the API calls), so that informer callbacks and the writes of      *)
(* others to the store interleave with it where they can in the program.    *)
(*                                                                          *)
(* NetBindingPluginSidecarList, a function of a VirtualMachineInstance and  *)
(* a configuration, has a specification of its own, as have the statuses a  *)
(* parent can start with and the events of a single VirtualMachine.         *)
(***************************************************************************)
EXTENDS Integers, Sequences, FiniteSets, TLC

(***************************************************************************)
(* Bounds of the model.                                                     *)
(***************************************************************************)
\* UIDs handed out to OfflineVirtualMachines: the parent can be re-created.
MaxOvmUid == 2
\* UIDs handed out to VirtualMachines; a create call fails once they are used up.
MaxVmUid == 2
\* The number of steps the users and the other subsystems take (creations, deletions
\* and changes of objects that the controller did not ask for).
MaxWorldSteps == 2

(***************************************************************************)
(* The universe: one namespace, the names of the objects, the workers.      *)
(***************************************************************************)
Namespace == "default"
OvmNames == {"p"}
VmNames == {"p", "x"}
\* The queue hands a key to one worker at a time and the model has one key, so a
\* second worker would only repeat what the first one does.
Workers == {"w1"}

OfflineVirtualMachineKind == "OfflineVirtualMachine"
FinalizerOrphanDependents == "orphan"

\* label sets a VirtualMachine or a template can carry
AppLabels == {"app=p"}
OtherLabels == {"app=other"}

\* condition types of OfflineVirtualMachineStatus
OfflineVirtualMachineRunning == "Running"
OfflineVirtualMachineFailure == "Failure"

\* event reasons
FailedCreateVirtualMachineReason == "FailedCreate"
SuccessfulCreateVirtualMachineReason == "SuccessfulCreate"
FailedDeleteVirtualMachineReason == "FailedDelete"
SuccessfulDeleteVirtualMachineReason == "SuccessfulDelete"
SuccessfulPausedReplicaSetReason == "SuccessfulPausedReplicaSet"
SuccessfulResumedReplicaSetReason == "SuccessfulResumedReplicaSet"

\* error values: the empty string is Go's nil error
NoErr == ""
ErrCreate == "create failed"
ErrDelete == "delete failed"
ErrUpdate == "update failed"
ErrPatch == "patch failed"
ErrRelease == "release failed"
ErrRecheck == "can't adopt: original OfflineVirtualMachine is gone"
ErrList == "list failed"

(***************************************************************************)
(* Objects.                                                                 *)
(***************************************************************************)
\* v1.OwnerReference; NilRef is the nil *OwnerReference
NilRef == [kind |-> "", name |-> "", uid |-> 0, controller |-> FALSE, blockOwnerDeletion |-> FALSE]

\* spec.template of an OfflineVirtualMachine; present = FALSE is the nil template
NilTemplate == [present |-> FALSE, name |-> "", generateName |-> "", labels |-> {}]
Template(l) == [present |-> TRUE, name |-> "", generateName |-> "", labels |-> l]

\* spec.selector: kind "nil" (no selector), "bad" (does not parse) or "labels"
NilSelector == [kind |-> "nil", matchLabels |-> {}]
BadSelector == [kind |-> "bad", matchLabels |-> {}]
LabelSelector(l) == [kind |-> "labels", matchLabels |-> l]

\* The shapes of spec.template / spec.selector a parent is created with.
OvmSpecShapes ==
    { [template |-> Template(AppLabels), selector |-> LabelSelector(AppLabels)],    \* valid
      [template |-> NilTemplate,         selector |-> LabelSelector(AppLabels)],    \* no template
      [template |-> Template(AppLabels), selector |-> NilSelector],                 \* no selector
      [template |-> Template({}),        selector |-> LabelSelector(AppLabels)],    \* no template labels
      [template |-> Template(AppLabels), selector |-> BadSelector],                 \* selector does not parse
      [template |-> Template(AppLabels), selector |-> LabelSelector(OtherLabels)] } \* selector misses the template

ValidShape == [template |-> Template(AppLabels), selector |-> LabelSelector(AppLabels)]

NewOvm(n, u, r, shape) ==
    [name |-> n, uid |-> u, running |-> r, deletionTimestamp |-> FALSE, finalizers |-> {},
     template |-> shape.template, selector |-> shape.selector, conditions |-> << >>]

\* A VirtualMachine.  resourceVersion is kept relative to the informer: 0 is the
\* version the informer has delivered, 1 any version written after it.
NewVm(n, u, l, refs) ==
    [name |-> n, uid |-> u, labels |-> l, ownerReferences |-> refs,
     deletionTimestamp |-> FALSE, final |-> FALSE, resourceVersion |-> 1]

\* controller.KeyFunc / controller.VirtualMachineKey: namespace/name
KeyFunc(obj) == Namespace \o "/" \o obj.name
VirtualMachineKey(vm) == Namespace \o "/" \o vm.name
Keys == {Namespace \o "/" \o n : n \in OvmNames}

\* the object of a set of objects with the given name, as a set of at most one
ByName(objs, n) == {o \in objs : o.name = n}

\* controller.GetControllerOf: the owner reference marked controller, or nil
GetControllerOf(vm) ==
    IF \E r \in vm.ownerReferences : r.controller
    THEN CHOOSE r \in vm.ownerReferences : r.controller
    ELSE NilRef

\* controller.HasFinalizer
HasFinalizer(ovm, f) == f \in ovm.finalizers

\* VirtualMachine.IsFinal
IsFinal(vm) == vm.final

\* v1.LabelSelectorAsSelector: the error, and the selector it yields
LabelSelectorAsSelectorErr(sel) == sel.kind = "bad"
\* selector.Matches(labels.Set(l)): a nil LabelSelector converts to labels.Nothing()
SelectorMatches(sel, l) == sel.kind = "labels" /\ sel.matchLabels \subseteq l

(***************************************************************************)
(* The expectations store: parentKey -> {addsExpected, delsExpected, ttl}.  *)
(* ExpectCreations and ExpectDeletions set the record of the key anew and   *)
(* stamp it; expired says that the time to live of the stamp has passed.    *)
(***************************************************************************)
NoExpectation == [present |-> FALSE, adds |-> 0, dels |-> {}, expired |-> FALSE]

ExpectCreations(e, key, n) ==
    [e EXCEPT ![key] = [present |-> TRUE, adds |-> n, dels |-> {}, expired |-> FALSE]]

ExpectDeletions(e, key, childKeys) ==
    [e EXCEPT ![key] = [present |-> TRUE, adds |-> 0, dels |-> childKeys, expired |-> FALSE]]

CreationObserved(e, key) ==
    IF e[key].present
    THEN [e EXCEPT ![key].adds = IF @ > 0 THEN @ - 1 ELSE 0]
    ELSE e

DeletionObserved(e, key, childKey) ==
    IF e[key].present
    THEN [e EXCEPT ![key].dels = @ \ {childKey}]
    ELSE e

SatisfiedExpectations(e, key) ==
    \/ ~e[key].present
    \/ e[key].adds = 0 /\ e[key].dels = {}
    \/ e[key].expired

\* DeleteExpectations as it would be if it left the record in place
DeleteExpectationsKeeps(e, key) == e

DeleteExpectations(e, key) == [e EXCEPT ![key] = NoExpectation]

(***************************************************************************)
(* The work queue: a de-duplicated FIFO with the dirty and processing sets. *)
(* How long a backoff lasts is not modelled: a key added with backoff is    *)
(* added at once, and how long it then waits is left to Get.  Forget, which *)
(* only resets the length of the backoff, leaves the queue as it is.        *)
(***************************************************************************)
EmptyQueue == [queue |-> << >>, dirty |-> {}, processing |-> {}]

QueueAdd(q, key) ==
    IF key \in q.dirty THEN q
    ELSE IF key \in q.processing THEN [q EXCEPT !.dirty = @ \cup {key}]
    ELSE [q EXCEPT !.dirty = @ \cup {key}, !.queue = Append(@, key)]

QueueGet(q) ==
    [q EXCEPT !.queue = Tail(@), !.processing = @ \cup {Head(q.queue)},
              !.dirty = @ \ {Head(q.queue)}]

QueueDone(q, key) ==
    IF key \in q.dirty
    THEN [q EXCEPT !.processing = @ \ {key}, !.queue = Append(@, key)]
    ELSE [q EXCEPT !.processing = @ \ {key}]

QueueAddRateLimited(q, key) == QueueAdd(q, key)

QueueForget(q, key) == q

(***************************************************************************)
(* Status conditions.                                                       *)
(***************************************************************************)
Condition(t, reason, message) ==
    [type |-> t, status |-> "True", reason |-> reason, message |-> message]

hasCondition(ovm, cond) ==
    \E i \in 1..Len(ovm.conditions) : ovm.conditions[i].type = cond

removeCondition(ovm, cond) ==
    [ovm EXCEPT !.conditions = SelectSeq(@, LAMBDA c : c.type # cond)]

\* processFailure as it would be if it left a Failure condition in place for ever
processFailureKeeps(ovm, createErr) ==
    IF createErr # NoErr /\ ~hasCondition(ovm, OfflineVirtualMachineFailure)
    THEN [ovm EXCEPT !.conditions =
            Append(@, Condition(OfflineVirtualMachineFailure,
                                IF ovm.running THEN "FailedCreate" ELSE "FailedDelete",
                                createErr))]
    ELSE ovm

processFailure(ovm, createErr) ==
    IF createErr # NoErr /\ ~hasCondition(ovm, OfflineVirtualMachineFailure)
    THEN [ovm EXCEPT !.conditions =
            Append(@, Condition(OfflineVirtualMachineFailure,
                                IF ovm.running THEN "FailedCreate" ELSE "FailedDelete",
                                createErr))]
    ELSE IF createErr = NoErr /\ hasCondition(ovm, OfflineVirtualMachineFailure)
    THEN removeCondition(ovm, OfflineVirtualMachineFailure)
    ELSE ovm

\* processRunning as it would be without the look at the error of startStop
processRunningDespiteError(ovm, createErr) ==
    IF ovm.running /\ ~hasCondition(ovm, OfflineVirtualMachineRunning)
    THEN [ovm EXCEPT !.conditions =
            Append(@, Condition(OfflineVirtualMachineRunning,
                                "Created by OVM " \o ovm.name,
                                "Created by OVM " \o ovm.name))]
    ELSE removeCondition(ovm, OfflineVirtualMachineRunning)

\* processRunning as it would be without the look for a Running condition
processRunningAppends(ovm, createErr) ==
    IF ovm.running /\ createErr = NoErr
    THEN [ovm EXCEPT !.conditions =
            Append(@, Condition(OfflineVirtualMachineRunning,
                                "Created by OVM " \o ovm.name,
                                "Created by OVM " \o ovm.name))]
    ELSE removeCondition(ovm, OfflineVirtualMachineRunning)

processRunning(ovm, createErr) ==
    IF ovm.running /\ createErr = NoErr /\ ~hasCondition(ovm, OfflineVirtualMachineRunning)
    THEN [ovm EXCEPT !.conditions =
            Append(@, Condition(OfflineVirtualMachineRunning,
                                "Created by OVM " \o ovm.name,
                                "Created by OVM " \o ovm.name))]
    ELSE removeCondition(ovm, OfflineVirtualMachineRunning)

\* updateStatus as it would be if it never found the errors to match
errorsMatchNever(ovm, createErr) == FALSE

errorsMatch(ovm, createErr) ==
    (createErr # NoErr) = hasCondition(ovm, OfflineVirtualMachineFailure)

stoppedMatch(ovm) ==
    ovm.running = hasCondition(ovm, OfflineVirtualMachineRunning)

getVirtualMachineBaseName(ovm) ==
    IF ovm.template.name # "" THEN ovm.template.name
    ELSE IF ovm.template.generateName # "" THEN ovm.template.generateName
    ELSE ovm.name

OvmOwnerRef(ovm) ==
    [kind |-> OfflineVirtualMachineKind, name |-> ovm.name, uid |-> ovm.uid,
     controller |-> TRUE, blockOwnerDeletion |-> TRUE]


(***************************************************************************)
(* NetBindingPluginSidecarList: the hook sidecars of the network binding    *)
(* plugins that the interfaces of a VirtualMachineInstance name.            *)
(***************************************************************************)
\* the most interfaces a VirtualMachineInstance of the model declares
MaxInterfaces == 3

BindingNames == {"a", "b"}
SidecarImages == {"", "img1", "img2"}

\* iface.Binding is a pointer: no element is nil, one element is the name it holds
Interface(binding) == [Binding |-> binding]
InterfaceShapes == {Interface({})} \cup {Interface({n}) : n \in BindingNames}
Vmis == {[Interfaces |-> l] : l \in UNION {[1..k -> InterfaceShapes] : k \in 0..MaxInterfaces}}

InterfaceBindingPlugin(image) == [SidecarImage |-> image]
\* config.NetworkConfiguration.Binding: a map from binding names to plugins
BindingCatalogs ==
    UNION {[D -> {InterfaceBindingPlugin(i) : i \in SidecarImages}] : D \in SUBSET BindingNames}
\* config.NetworkConfiguration is a pointer and its Binding a map: either can be nil
KubeVirtConfigurations ==
    {[NetworkConfiguration |-> {}], [NetworkConfiguration |-> {[Binding |-> {}]}]}
    \cup {[NetworkConfiguration |-> {[Binding |-> {c}]}] : c \in BindingCatalogs}

NoVmi == [Interfaces |-> << >>]
NoConfig == [NetworkConfiguration |-> {}]
NotCalled == {}

HasCatalog(cfg) ==
    /\ cfg.NetworkConfiguration # {}
    /\ \A nc \in cfg.NetworkConfiguration : nc.Binding # {}
CatalogOf(cfg) == CHOOSE c \in UNION {nc.Binding : nc \in cfg.NetworkConfiguration} : TRUE

UnknownBinding(name) == "couldn't find configuration for network bindining: " \o name

\* a lookup that finds every name, whatever the configuration holds
lookupBindingAlwaysExists(cfg, name) ==
    [pluginInfo |-> InterfaceBindingPlugin(""), exist |-> TRUE, stored |-> HasCatalog(cfg)]

\* lines 35-40: the two-valued map read; without a catalog nothing is read or stored
lookupBinding(cfg, name) ==
    IF HasCatalog(cfg)
    THEN LET exist == name \in DOMAIN CatalogOf(cfg)
         IN  [pluginInfo |-> IF exist THEN CatalogOf(cfg)[name] ELSE InterfaceBindingPlugin(""),
              exist |-> exist, stored |-> TRUE]
    ELSE [pluginInfo |-> InterfaceBindingPlugin(""), exist |-> FALSE, stored |-> FALSE]

\* bindingByName[name] = pluginInfo
MapPut(m, name, pluginInfo) ==
    [n \in DOMAIN m \cup {name} |-> IF n = name THEN pluginInfo ELSE m[n]]

\* lines 33-46: the loop over the interfaces from the i-th on; it stops at the first
\* binding that the catalog does not hold
RECURSIVE bindInterfaces(_, _, _, _)
bindInterfaces(interfaces, cfg, i, bindingByName) ==
    IF i > Len(interfaces) THEN [bindingByName |-> bindingByName, err |-> NoErr]
    ELSE IF interfaces[i].Binding = {}
    THEN bindInterfaces(interfaces, cfg, i + 1, bindingByName)
    ELSE LET name == CHOOSE n \in interfaces[i].Binding : TRUE
             found == lookupBinding(cfg, name)
             bound == IF found.stored THEN MapPut(bindingByName, name, found.pluginInfo)
                      ELSE bindingByName
         IN  IF ~found.exist
             THEN [bindingByName |-> bound, err |-> UnknownBinding(name)]
             ELSE bindInterfaces(interfaces, cfg, i + 1, bound)

\* the orders in which a range over the map can visit its keys
RangeOrders(m) ==
    {o \in [1..Cardinality(DOMAIN m) -> DOMAIN m] : \A i, j \in DOMAIN o : o[i] = o[j] => i = j}

\* lines 47-51: one sidecar for every entry of the map with an image
sidecarsInOrder(m, order) ==
    LET images == [i \in DOMAIN order |-> m[order[i]].SidecarImage]
        HasImage(image) == image # ""
        kept == SelectSeq(images, HasImage)
    IN  [i \in DOMAIN kept |-> [Image |-> kept[i]]]

\* what a call can return: the list (nil is the empty list) and the error
NetBindingPluginSidecarList(v, cfg) ==
    LET bound == bindInterfaces(v.Interfaces, cfg, 1, << >>)
    IN  IF bound.err # NoErr
        THEN {[pluginSidecars |-> << >>, err |-> bound.err]}
        ELSE {[pluginSidecars |-> sidecarsInOrder(bound.bindingByName, o), err |-> NoErr] :
                o \in RangeOrders(bound.bindingByName)}

(***************************************************************************)
(* State.                                                                   *)
(***************************************************************************)
VARIABLES
    apiOvms,        \* the object store: the OfflineVirtualMachines (clientset)
    apiVms,         \* the object store: the VirtualMachines (clientset)
    vmOVMInformer,  \* the informer cache of OfflineVirtualMachines
    vmInformer,     \* the informer cache of VirtualMachines
    Queue,          \* c.Queue
    expectations,   \* c.expectations
    nextOvmUid,     \* the next UID of an OfflineVirtualMachine
    nextVmUid,      \* the next UID of a VirtualMachine
    pc,             \* where each worker stands in Execute/execute
    loc,            \* each worker's locals: key, OVM, needsSync, vms, createErr, err
    ops,            \* what each worker's current pass has done so far, in order
    worldSteps,     \* the steps the world around the controller has taken
    vmi,            \* NetBindingPluginSidecarList: the VirtualMachineInstance given
    config,         \* NetBindingPluginSidecarList: the KubeVirtConfiguration given
    sidecarList     \* NetBindingPluginSidecarList: what the call returned

\* the variables of the calls of NetBindingPluginSidecarList
sidecarVars == <<vmi, config, sidecarList>>

\* the variables of the controller
ovmVars == <<apiOvms, apiVms, vmOVMInformer, vmInformer, Queue, expectations,
             nextOvmUid, nextVmUid, pc, loc, ops, worldSteps>>

vars == <<ovmVars, sidecarVars>>

\* the part of the controller the informer callbacks write
Handled == [Queue |-> Queue, expectations |-> expectations]

(***************************************************************************)
(* Informer callbacks.  Each takes the controller state h it writes and the *)
(* OfflineVirtualMachine cache it reads, and yields the state it leaves.    *)
(***************************************************************************)
enqueueOvm(h, ovm) == [h EXCEPT !.Queue = QueueAdd(@, KeyFunc(ovm))]

RECURSIVE enqueueEach(_, _)
enqueueEach(h, ovms) ==
    IF ovms = {} THEN h
    ELSE LET o == CHOOSE x \in ovms : TRUE
         IN  enqueueEach(enqueueOvm(h, o), ovms \ {o})

addOvm(h, obj) == enqueueOvm(h, obj)
deleteOvm(h, obj) == enqueueOvm(h, obj)
updateOvm(h, old, curr) == enqueueOvm(h, curr)

\* resolveControllerRef as it would be without the comparison of the UIDs
resolveControllerRefByName(ovms, controllerRef) ==
    IF controllerRef.kind # OfflineVirtualMachineKind THEN {}
    ELSE {o \in ovms : o.name = controllerRef.name}

\* the OfflineVirtualMachine a controller reference resolves to: a set of at most one
resolveControllerRef(ovms, controllerRef) ==
    IF controllerRef.kind # OfflineVirtualMachineKind THEN {}
    ELSE {o \in ovms : o.name = controllerRef.name /\ o.uid = controllerRef.uid}

getMatchingControllers(ovms, vm) ==
    {o \in ovms : ~LabelSelectorAsSelectorErr(o.selector)
                  /\ SelectorMatches(o.selector, vm.labels)}

\* what an informer hands to a delete callback: the object, or a tombstone around it
Plain(vm) == [wrap |-> "vm", vm |-> vm]
Tombstone(vm) == [wrap |-> "tombstone", vm |-> vm]

\* deleteVirtualMachine as it would be if it gave up on a tombstone
deleteVirtualMachineNoUnwrap(h, ovms, obj) ==
    LET vm == obj.vm
        controllerRef == GetControllerOf(vm)
        ovm == resolveControllerRef(ovms, controllerRef)
    IN  IF obj.wrap # "vm" THEN h
        ELSE IF controllerRef = NilRef THEN h
        ELSE IF ovm = {} THEN h
        ELSE LET o == CHOOSE x \in ovm : TRUE
             IN  enqueueOvm([h EXCEPT !.expectations =
                                DeletionObserved(@, KeyFunc(o), VirtualMachineKey(vm))], o)

deleteVirtualMachine(h, ovms, obj) ==
    LET vm == obj.vm
        controllerRef == GetControllerOf(vm)
        ovm == resolveControllerRef(ovms, controllerRef)
    IN  IF obj.wrap \notin {"vm", "tombstone"} THEN h
        ELSE IF controllerRef = NilRef THEN h
        ELSE IF ovm = {} THEN h
        ELSE LET o == CHOOSE x \in ovm : TRUE
             IN  enqueueOvm([h EXCEPT !.expectations =
                                DeletionObserved(@, KeyFunc(o), VirtualMachineKey(vm))], o)

addVirtualMachine(h, ovms, vm) ==
    LET controllerRef == GetControllerOf(vm)
        ovm == resolveControllerRef(ovms, controllerRef)
    IN  IF vm.deletionTimestamp THEN deleteVirtualMachine(h, ovms, Plain(vm))
        ELSE IF controllerRef # NilRef
        THEN IF ovm = {} THEN h
             ELSE LET o == CHOOSE x \in ovm : TRUE
                  IN  enqueueOvm([h EXCEPT !.expectations = CreationObserved(@, KeyFunc(o))], o)
        ELSE enqueueEach(h, getMatchingControllers(ovms, vm))

\* updateVirtualMachine as it would be without the comparison of the resource versions
updateVirtualMachineAnyVersion(h, ovms, old, cur) ==
    LET labelChanged == cur.labels # old.labels
        curControllerRef == GetControllerOf(cur)
        oldControllerRef == GetControllerOf(old)
        controllerRefChanged == curControllerRef # oldControllerRef
        h1 == IF controllerRefChanged /\ oldControllerRef # NilRef
              THEN enqueueEach(h, resolveControllerRef(ovms, oldControllerRef))
              ELSE h
    IN  IF cur.deletionTimestamp
        THEN LET hd == deleteVirtualMachine(h, ovms, Plain(cur))
             IN  IF labelChanged THEN deleteVirtualMachine(hd, ovms, Plain(old)) ELSE hd
        ELSE IF curControllerRef # NilRef
        THEN enqueueEach(h1, resolveControllerRef(ovms, curControllerRef))
        ELSE IF labelChanged \/ controllerRefChanged
        THEN enqueueEach(h1, getMatchingControllers(ovms, cur))
        ELSE h1

updateVirtualMachine(h, ovms, old, cur) ==
    LET labelChanged == cur.labels # old.labels
        curControllerRef == GetControllerOf(cur)
        oldControllerRef == GetControllerOf(old)
        controllerRefChanged == curControllerRef # oldControllerRef
        h1 == IF controllerRefChanged /\ oldControllerRef # NilRef
              THEN enqueueEach(h, resolveControllerRef(ovms, oldControllerRef))
              ELSE h
    IN  IF cur.resourceVersion = old.resourceVersion THEN h
        ELSE IF cur.deletionTimestamp
        THEN LET hd == deleteVirtualMachine(h, ovms, Plain(cur))
             IN  IF labelChanged THEN deleteVirtualMachine(hd, ovms, Plain(old)) ELSE hd
        ELSE IF curControllerRef # NilRef
        THEN enqueueEach(h1, resolveControllerRef(ovms, curControllerRef))
        ELSE IF labelChanged \/ controllerRefChanged
        THEN enqueueEach(h1, getMatchingControllers(ovms, cur))
        ELSE h1

(***************************************************************************)
(* The informers: each delivers what its cache has not seen of the store,   *)
(* updates the cache and runs the callback.                                 *)
(***************************************************************************)
Delivered(v) == [v EXCEPT !.resourceVersion = 0]

\* a callback has panicked and the process is gone
Panicked == \E w \in Workers : pc[w] = "panicked"

Handle(h) ==
    /\ ~Panicked
    /\ Queue' = h.Queue
    /\ expectations' = h.expectations

VmInformerAdd(n) ==
    /\ ByName(vmInformer, n) = {}
    /\ \E v \in ByName(apiVms, n) :
        /\ vmInformer' = vmInformer \cup {Delivered(v)}
        /\ apiVms' = (apiVms \ {v}) \cup {Delivered(v)}
        /\ Handle(addVirtualMachine(Handled, vmOVMInformer, v))
    /\ UNCHANGED <<sidecarVars, apiOvms, vmOVMInformer, nextOvmUid, nextVmUid, pc, loc, ops, worldSteps>>

VmInformerUpdate(n) ==
    /\ \E old \in ByName(vmInformer, n), cur \in ByName(apiVms, n) :
        /\ old.uid = cur.uid
        /\ cur.resourceVersion # old.resourceVersion
        /\ vmInformer' = (vmInformer \ {old}) \cup {Delivered(cur)}
        /\ apiVms' = (apiVms \ {cur}) \cup {Delivered(cur)}
        /\ Handle(updateVirtualMachine(Handled, vmOVMInformer, old, cur))
    /\ UNCHANGED <<sidecarVars, apiOvms, vmOVMInformer, nextOvmUid, nextVmUid, pc, loc, ops, worldSteps>>

\* what a snapshot of the resource version of old can hold
SameVersion(old) ==
    {[old EXCEPT !.labels = l, !.ownerReferences = refs, !.deletionTimestamp = d] :
        l \in {AppLabels, OtherLabels},
        refs \in {{}} \cup {{OvmOwnerRef(o)} : o \in vmOVMInformer},
        d \in BOOLEAN}

\* an update event whose two snapshots carry one resource version: the periodic
\* resync, or any other sender of such an event, whatever the snapshots hold
VmInformerResync(n) ==
    /\ \E old \in ByName(vmInformer, n) : \E cur \in SameVersion(old) :
        Handle(updateVirtualMachine(Handled, vmOVMInformer, old, cur))
    /\ UNCHANGED <<sidecarVars, apiOvms, apiVms, vmOVMInformer, vmInformer, nextOvmUid, nextVmUid, pc, loc, ops, worldSteps>>

VmInformerDelete(n) ==
    /\ \E old \in ByName(vmInformer, n) :
        /\ \A cur \in ByName(apiVms, n) : cur.uid # old.uid
        /\ vmInformer' = vmInformer \ {old}
        /\ \E obj \in {Plain(old), Tombstone(old)} :
            Handle(deleteVirtualMachine(Handled, vmOVMInformer, obj))
    /\ UNCHANGED <<sidecarVars, apiOvms, apiVms, vmOVMInformer, nextOvmUid, nextVmUid, pc, loc, ops, worldSteps>>

OvmInformerAdd(n) ==
    /\ ByName(vmOVMInformer, n) = {}
    /\ \E o \in ByName(apiOvms, n) :
        /\ vmOVMInformer' = vmOVMInformer \cup {o}
        /\ Handle(addOvm(Handled, o))
    /\ UNCHANGED <<sidecarVars, apiOvms, apiVms, vmInformer, nextOvmUid, nextVmUid, pc, loc, ops, worldSteps>>

OvmInformerUpdate(n) ==
    /\ \E old \in ByName(vmOVMInformer, n), cur \in ByName(apiOvms, n) :
        /\ old.uid = cur.uid
        /\ old # cur
        /\ vmOVMInformer' = (vmOVMInformer \ {old}) \cup {cur}
        /\ Handle(updateOvm(Handled, old, cur))
    /\ UNCHANGED <<sidecarVars, apiOvms, apiVms, vmInformer, nextOvmUid, nextVmUid, pc, loc, ops, worldSteps>>

OvmInformerDelete(n) ==
    /\ \E old \in ByName(vmOVMInformer, n) :
        /\ \A cur \in ByName(apiOvms, n) : cur.uid # old.uid
        /\ vmOVMInformer' = vmOVMInformer \ {old}
        /\ Handle(deleteOvm(Handled, old))
    /\ UNCHANGED <<sidecarVars, apiOvms, apiVms, vmInformer, nextOvmUid, nextVmUid, pc, loc, ops, worldSteps>>

\* The delete event of a parent whose final state the informer has missed: deleteOvm
\* is given a cache.DeletedFinalStateUnknown and hands it to enqueueOvm, whose type
\* assertion to *OfflineVirtualMachine panics before anything is added to the queue.
OvmInformerDeleteUnknown(n) ==
    /\ ~Panicked
    /\ \E old \in ByName(vmOVMInformer, n) :
        /\ \A cur \in ByName(apiOvms, n) : cur.uid # old.uid
        /\ vmOVMInformer' = vmOVMInformer \ {old}
    /\ pc' = [w \in Workers |-> "panicked"]
    /\ UNCHANGED <<sidecarVars, apiOvms, apiVms, vmInformer, Queue, expectations,
                   nextOvmUid, nextVmUid, loc, ops, worldSteps>>


(***************************************************************************)
(* The workers: Execute and execute, cut at the suspension points.          *)
(***************************************************************************)
NilOvm == NewOvm("", 0, FALSE, [template |-> NilTemplate, selector |-> NilSelector])

NoLocals ==
    [key |-> "", OVM |-> NilOvm, needsSync |-> FALSE, vms |-> {},
     createErr |-> NoErr, err |-> NoErr]

NameOfKey(key) == CHOOSE n \in OvmNames : Namespace \o "/" \o n = key

\* a set of names as a sequence, in a fixed order
RECURSIVE SeqOfNames(_)
SeqOfNames(ns) ==
    IF ns = {} THEN << >>
    ELSE LET n == CHOOSE x \in ns : TRUE
         IN  <<n>> \o SeqOfNames(ns \ {n})

Logged(op, names) == [i \in 1..Len(SeqOfNames(names)) |-> <<op, SeqOfNames(names)[i]>>]

\* The worker's step: its next place, its locals, what it appends to the log.
\* A step to "done" is a return of execute, and Execute goes on without a pause:
\* the key is re-enqueued with backoff on an error and forgotten otherwise.
Step(w, place, locals, log) ==
    /\ pc' = [pc EXCEPT ![w] = place]
    /\ loc' = [loc EXCEPT ![w] = locals]
    /\ IF place = "done"
       THEN /\ Queue' = IF locals.err # NoErr
                        THEN QueueAddRateLimited(Queue, locals.key)
                        ELSE QueueForget(Queue, locals.key)
            /\ ops' = [ops EXCEPT ![w] =
                        @ \o log \o << <<IF locals.err # NoErr THEN "AddRateLimited"
                                         ELSE "Forget", locals.key>> >>]
       ELSE /\ UNCHANGED Queue
            /\ ops' = [ops EXCEPT ![w] = @ \o log]

\* Execute: Queue.Get
Get(w) ==
    /\ pc[w] = "idle"
    /\ Queue.queue # << >>
    /\ Queue' = QueueGet(Queue)
    /\ pc' = [pc EXCEPT ![w] = "lookup"]
    /\ loc' = [loc EXCEPT ![w] = [NoLocals EXCEPT !.key = Head(Queue.queue)]]
    /\ ops' = [ops EXCEPT ![w] = << >>]
    /\ UNCHANGED <<sidecarVars, apiOvms, apiVms, vmOVMInformer, vmInformer, expectations,
                   nextOvmUid, nextVmUid, worldSteps>>

\* the validation as it would be without the match of the selector and the
\* template's labels
InvalidSpecUnmatched(OVM) ==
    \/ ~OVM.template.present
    \/ OVM.selector.kind = "nil"
    \/ OVM.template.labels = {}
    \/ LabelSelectorAsSelectorErr(OVM.selector)

\* execute: the validation of the OfflineVirtualMachine's spec
InvalidSpec(OVM) ==
    \/ ~OVM.template.present
    \/ OVM.selector.kind = "nil"
    \/ OVM.template.labels = {}
    \/ LabelSelectorAsSelectorErr(OVM.selector)
    \/ ~SelectorMatches(OVM.selector, OVM.template.labels)

\* execute: the cache lookup of the key, the validation, the sample of the expectations
Lookup(w) ==
    /\ pc[w] = "lookup"
    /\ LET key == loc[w].key
           obj == ByName(vmOVMInformer, NameOfKey(key))
       IN  IF obj = {}
           THEN /\ expectations' = DeleteExpectations(expectations, key)
                /\ Step(w, "done", loc[w], << <<"DeleteExpectations", key>> >>)
           ELSE LET OVM == CHOOSE o \in obj : TRUE
                IN  /\ UNCHANGED expectations
                    /\ IF InvalidSpec(OVM)
                       THEN Step(w, "done", [loc[w] EXCEPT !.OVM = OVM], << >>)
                       ELSE Step(w, "list",
                                 [loc[w] EXCEPT !.OVM = OVM,
                                     !.needsSync = SatisfiedExpectations(expectations, key)],
                                 << >>)
    /\ UNCHANGED <<sidecarVars, apiOvms, apiVms, vmOVMInformer, vmInformer,
                   nextOvmUid, nextVmUid, worldSteps>>

\* execute: the cache lookup of the key returns an error; execute returns nil
LookupFails(w) ==
    /\ pc[w] = "lookup"
    /\ Step(w, "done", loc[w], << <<"GetByKey", "failed">> >>)
    /\ UNCHANGED <<sidecarVars, apiOvms, apiVms, vmOVMInformer, vmInformer, expectations,
                   nextOvmUid, nextVmUid, worldSteps>>

listVMsFromNamespace(namespace) == vmInformer

filterActiveVMs(vms) == {vm \in vms : ~IsFinal(vm)}

\* execute: the list of the namespace's VirtualMachines from the cache
List(w) ==
    /\ pc[w] = "list"
    /\ Step(w, "claim",
            [loc[w] EXCEPT !.vms = filterActiveVMs(listVMsFromNamespace(Namespace))], << >>)
    /\ UNCHANGED <<sidecarVars, apiOvms, apiVms, vmOVMInformer, vmInformer, expectations,
                   nextOvmUid, nextVmUid, worldSteps>>

\* execute: the list from the cache returns an error; execute returns it
ListFails(w) ==
    /\ pc[w] = "list"
    /\ Step(w, "done", [loc[w] EXCEPT !.err = ErrList], << <<"List", "failed">> >>)
    /\ UNCHANGED <<sidecarVars, apiOvms, apiVms, vmOVMInformer, vmInformer, expectations,
                   nextOvmUid, nextVmUid, worldSteps>>

\* canAdoptFunc's uncached read of the OfflineVirtualMachine: what the store returns.
\* getFails is a transient failure of the call.
FreshOvm(OVM, getFails) == IF getFails THEN {} ELSE ByName(apiOvms, OVM.name)

\* what the read returned, for the log
GetOutcome(OVM, fresh) ==
    IF fresh = {} THEN "error"
    ELSE IF \E f \in fresh : f.uid # OVM.uid THEN "other uid"
    ELSE "same uid"

\* canAdoptFunc as it would be without the comparison of the UIDs
canAdoptFuncErrAnyUid(OVM, fresh) == fresh = {}

\* canAdoptFunc: TRUE when it returns an error (the read failed, or the object it
\* returned has another UID than the cached one)
canAdoptFuncErr(OVM, fresh) ==
    \/ fresh = {}
    \/ \E f \in fresh : f.uid # OVM.uid

\* controller.RecheckDeletionTimestamp around canAdoptFunc; TRUE when it returns an error
RecheckDeletionTimestampErr(OVM, fresh) ==
    \/ canAdoptFuncErr(OVM, fresh)
    \/ \E f \in fresh : f.deletionTimestamp

\* the store's VirtualMachine a cached one stands for, as a set of at most one
Stored(vm) == {s \in apiVms : s.name = vm.name /\ s.uid = vm.uid}

\* the VirtualMachines of a list a controller owns, may release or may adopt
OwnedBy(OVM, vms) ==
    {vm \in vms : GetControllerOf(vm) # NilRef /\ GetControllerOf(vm).uid = OVM.uid}
ToRelease(OVM, vms) ==
    {vm \in OwnedBy(OVM, vms) : ~SelectorMatches(OVM.selector, vm.labels)}
ToAdopt(OVM, vms) ==
    {vm \in vms : GetControllerOf(vm) = NilRef /\ SelectorMatches(OVM.selector, vm.labels)}

\* the patch that releases a VirtualMachine: NotFound counts as released
ReleasePatched(vms, released) ==
    {IF \E r \in released : r.name = s.name /\ r.uid = s.uid
     THEN [s EXCEPT !.ownerReferences = {x \in @ : ~x.controller}, !.resourceVersion = 1]
     ELSE s : s \in vms}

\* the patch that sets the owner reference on an adopted VirtualMachine
AdoptPatched(vms, adopted, OVM) ==
    {IF \E a \in adopted : a.name = s.name /\ a.uid = s.uid
     THEN [s EXCEPT !.ownerReferences = @ \cup {OvmOwnerRef(OVM)}, !.resourceVersion = 1]
     ELSE s : s \in vms}

\* an adoption patch the store refuses: the object already has a controller
AdoptRefused(vm) == \E s \in Stored(vm) : GetControllerOf(s) # NilRef

\* cm.ClaimVirtualMachines, with the transient failures of its calls chosen by
\* getFails (the uncached read) and failed (the patches, by name):
\* the claimed list, the error, the store it leaves and what it logs.
\* The recheck runs once, before the first adoption, and its error ends the adoptions.
ClaimVirtualMachines(OVM, vms, getFails, failed) ==
    LET fresh == FreshOvm(OVM, getFails)
        rechecked == ToAdopt(OVM, vms) # {}
        canAdoptErr == rechecked /\ RecheckDeletionTimestampErr(OVM, fresh)
        adoptTried == IF canAdoptErr THEN {} ELSE ToAdopt(OVM, vms)
        adopted == {vm \in adoptTried :
                        vm.name \notin failed /\ Stored(vm) # {} /\ ~AdoptRefused(vm)}
        adoptErr == \E vm \in adoptTried : vm.name \in failed \/ AdoptRefused(vm)
        released == {vm \in ToRelease(OVM, vms) : vm.name \notin failed}
        releaseErr == \E vm \in ToRelease(OVM, vms) : vm.name \in failed
    IN  [claimed |-> (OwnedBy(OVM, vms) \ ToRelease(OVM, vms)) \cup adopted,
         err |-> IF canAdoptErr THEN ErrRecheck
                 ELSE IF adoptErr \/ releaseErr THEN ErrPatch
                 ELSE NoErr,
         store |-> AdoptPatched(ReleasePatched(apiVms, released), adopted, OVM),
         log |-> (IF rechecked
                  THEN << <<"Get", GetOutcome(OVM, fresh)>>,
                          <<"Recheck", IF canAdoptErr THEN "failed" ELSE "ok">> >>
                  ELSE << >>)
                 \o Logged("Adopt", {vm.name : vm \in adopted})
                 \o Logged("Release", {vm.name : vm \in released})]

\* execute as it would be if it asked the expectations after the list and the claim
needsSyncAfterList(sampled, e, key) == SatisfiedExpectations(e, key)

\* execute: needsSync is what the expectations answered before the list was read,
\* whatever they hold by now
needsSyncOf(sampled, e, key) == sampled

\* execute as it would be if it called startStop in every pass
startStopDueAlways(needsSync, OVM) == TRUE

\* execute: the condition under which it calls startStop
startStopDue(needsSync, OVM) == needsSync /\ ~OVM.deletionTimestamp

\* execute: the adoption and release of VirtualMachines, and the guard on the
\* number of VirtualMachines claimed
Claim(w) ==
    /\ pc[w] = "claim"
    /\ \E getFails \in BOOLEAN, failed \in SUBSET {vm.name : vm \in loc[w].vms} :
        LET OVM == loc[w].OVM
            c == ClaimVirtualMachines(OVM, loc[w].vms, getFails, failed)
            locals == [loc[w] EXCEPT !.vms = c.claimed]
        IN  /\ getFails => ToAdopt(OVM, loc[w].vms) # {}
            /\ failed \subseteq {vm.name : vm \in ToAdopt(OVM, loc[w].vms) \cup ToRelease(OVM, loc[w].vms)}
            /\ apiVms' = c.store
            /\ IF c.err # NoErr
               THEN Step(w, "done", [locals EXCEPT !.err = c.err], c.log)
               ELSE IF Cardinality(c.claimed) > 1
               THEN Step(w, "done", locals, c.log)
               ELSE IF startStopDue(needsSyncOf(loc[w].needsSync, expectations, loc[w].key), OVM)
               THEN Step(w, "startStop", locals, c.log)
               ELSE Step(w, "status", locals, c.log)
    /\ UNCHANGED <<sidecarVars, apiOvms, vmOVMInformer, vmInformer, expectations,
                   nextOvmUid, nextVmUid, worldSteps>>


\* the VirtualMachine startStop is given: the one claimed, as a set of at most one
TheVm(w) == loc[w].vms

\* startStop as it would be if a running parent were given a VirtualMachine whatever
\* it has
startStopAlwaysCreates(ovm, vm) ==
    IF ovm.running THEN "create"
    ELSE IF vm = {} THEN "none" ELSE "delete"

\* startStop as it would be if it recorded no expectation before its call
expectNothing(e, ovm, vm, call) == [expectations |-> e, log |-> << >>]

\* startStop as it would be if it left the expectation of a failed call in place
observeNothing(e, ovm, vm, call) == [expectations |-> e, log |-> << >>]

\* startStop: the call it decides on for the parent and the VirtualMachine it is given
startStop(ovm, vm) ==
    IF ovm.running
    THEN IF vm # {} THEN "none" ELSE "create"
    ELSE IF vm = {} THEN "none" ELSE "delete"

\* startStop: the expectation it records before the call, and the log of it
expect(e, ovm, vm, call) ==
    IF call = "create"
    THEN [expectations |-> ExpectCreations(e, KeyFunc(ovm), 1),
          log |-> << <<"ExpectCreations", KeyFunc(ovm)>> >>]
    ELSE [expectations |-> ExpectDeletions(e, KeyFunc(ovm), {VirtualMachineKey(v) : v \in vm}),
          log |-> << <<"ExpectDeletions", KeyFunc(ovm)>> >>]

\* startStop: the expectation it takes back after a call that failed, and the log of it
observeFailed(e, ovm, vm, call) ==
    IF call = "create"
    THEN [expectations |-> CreationObserved(e, KeyFunc(ovm)),
          log |-> << <<"CreationObserved", KeyFunc(ovm)>> >>]
    ELSE [expectations |-> DeletionObserved(e, KeyFunc(ovm), VirtualMachineKey(vm)),
          log |-> << <<"DeletionObserved", VirtualMachineKey(vm)>> >>]

\* startStop up to the expectation it records before its API call
StartStop(w) ==
    /\ pc[w] = "startStop"
    /\ LET ovm == loc[w].OVM
           call == startStop(ovm, TheVm(w))
           expected == expect(expectations, ovm, TheVm(w), call)
       IN  IF call = "none"
           THEN /\ UNCHANGED expectations
                /\ Step(w, "status", loc[w], << >>)
           ELSE /\ expectations' = expected.expectations
                /\ Step(w, IF call = "create" THEN "createCall" ELSE "deleteCall",
                        loc[w], expected.log)
    /\ UNCHANGED <<sidecarVars, apiOvms, apiVms, vmOVMInformer, vmInformer,
                   nextOvmUid, nextVmUid, worldSteps>>

\* the VirtualMachine startStop builds from the template
VmFromTemplate(ovm, uid) ==
    NewVm(getVirtualMachineBaseName(ovm), uid, ovm.template.labels, {OvmOwnerRef(ovm)})

\* startStop: the create call returns without error
CreateSucceeds(w) ==
    /\ pc[w] = "createCall"
    /\ nextVmUid <= MaxVmUid
    /\ ByName(apiVms, getVirtualMachineBaseName(loc[w].OVM)) = {}
    /\ apiVms' = apiVms \cup {VmFromTemplate(loc[w].OVM, nextVmUid)}
    /\ nextVmUid' = nextVmUid + 1
    /\ Step(w, "status", loc[w],
            << <<"Create", getVirtualMachineBaseName(loc[w].OVM)>>,
               <<"Event", SuccessfulCreateVirtualMachineReason>> >>)
    /\ UNCHANGED <<sidecarVars, apiOvms, vmOVMInformer, vmInformer, expectations,
                   nextOvmUid, worldSteps>>

\* startStop: the create call returns an error (the name is taken, or a transient error)
CreateFails(w) ==
    /\ pc[w] = "createCall"
    /\ LET observed == observeFailed(expectations, loc[w].OVM, {}, "create")
       IN  /\ expectations' = observed.expectations
           /\ Step(w, "status", [loc[w] EXCEPT !.createErr = ErrCreate],
                   << <<"Create", getVirtualMachineBaseName(loc[w].OVM)>> >>
                   \o observed.log
                   \o << <<"Event", FailedCreateVirtualMachineReason>> >>)
    /\ UNCHANGED <<sidecarVars, apiOvms, apiVms, vmOVMInformer, vmInformer,
                   nextOvmUid, nextVmUid, worldSteps>>

\* the store's delete of a VirtualMachine: it stays, marked, until it is taken down
MarkDeleted(vms, n) ==
    {IF s.name = n /\ ~s.deletionTimestamp
     THEN [s EXCEPT !.deletionTimestamp = TRUE, !.resourceVersion = 1]
     ELSE s : s \in vms}

\* startStop: the delete call returns without error
DeleteSucceeds(w) ==
    /\ pc[w] = "deleteCall"
    /\ \E vm \in TheVm(w) :
        /\ ByName(apiVms, vm.name) # {}
        /\ apiVms' = MarkDeleted(apiVms, vm.name)
        /\ Step(w, "status", loc[w],
                << <<"Delete", vm.name>>, <<"Event", SuccessfulDeleteVirtualMachineReason>> >>)
    /\ UNCHANGED <<sidecarVars, apiOvms, vmOVMInformer, vmInformer, expectations,
                   nextOvmUid, nextVmUid, worldSteps>>

\* startStop: the delete call returns an error (not found, or a transient error)
DeleteFails(w) ==
    /\ pc[w] = "deleteCall"
    /\ \E vm \in TheVm(w) :
        LET observed == observeFailed(expectations, loc[w].OVM, vm, "delete")
        IN  /\ expectations' = observed.expectations
            /\ Step(w, "status", [loc[w] EXCEPT !.createErr = ErrDelete],
                    << <<"Delete", vm.name>> >>
                    \o observed.log
                    \o << <<"Event", FailedDeleteVirtualMachineReason>> >>)
    /\ UNCHANGED <<sidecarVars, apiOvms, apiVms, vmOVMInformer, vmInformer,
                   nextOvmUid, nextVmUid, worldSteps>>

\* orphan: the release of every VirtualMachine, joined; failed are the releases
\* that return an error.  The error it returns and the store it leaves.
orphan(vms, failed) ==
    [err |-> IF \E vm \in vms : vm.name \in failed THEN ErrRelease ELSE NoErr,
     store |-> ReleasePatched(apiVms, {vm \in vms : vm.name \notin failed}),
     log |-> Logged("Orphan", {vm.name : vm \in vms})]

\* execute: the orphan path of an OfflineVirtualMachine that is being deleted
Orphan(w) ==
    /\ pc[w] = "status"
    /\ loc[w].OVM.deletionTimestamp
    /\ HasFinalizer(loc[w].OVM, FinalizerOrphanDependents)
    /\ \E failed \in SUBSET {vm.name : vm \in loc[w].vms} :
        LET r == orphan(loc[w].vms, failed)
        IN  /\ apiVms' = r.store
            /\ Step(w, "done", [loc[w] EXCEPT !.err = r.err], r.log)
    /\ UNCHANGED <<sidecarVars, apiOvms, vmOVMInformer, vmInformer, expectations,
                   nextOvmUid, nextVmUid, worldSteps>>

\* updateStatus: the copy with its conditions recomputed
StatusOf(ovm, createErr) == processRunning(processFailure(ovm, createErr), createErr)

\* the event updateStatus sends after a write
TransitionEvent(ovm) ==
    IF stoppedMatch(ovm) THEN << >>
    ELSE IF ovm.running THEN << <<"Event", SuccessfulPausedReplicaSetReason>> >>
    ELSE << <<"Event", SuccessfulResumedReplicaSetReason>> >>

\* the store takes an update of an object it still holds unchanged
UpdateAccepted(ovm) == ovm \in apiOvms

\* execute: updateStatus finds nothing to write
StatusUnchanged(w) ==
    /\ pc[w] = "status"
    /\ ~(loc[w].OVM.deletionTimestamp /\ HasFinalizer(loc[w].OVM, FinalizerOrphanDependents))
    /\ errorsMatch(loc[w].OVM, loc[w].createErr) /\ stoppedMatch(loc[w].OVM)
    /\ Step(w, "done", loc[w], << >>)
    /\ UNCHANGED <<sidecarVars, apiOvms, apiVms, vmOVMInformer, vmInformer, expectations,
                   nextOvmUid, nextVmUid, worldSteps>>

\* execute: updateStatus writes the status and the write succeeds
StatusWritten(w) ==
    /\ pc[w] = "status"
    /\ ~(loc[w].OVM.deletionTimestamp /\ HasFinalizer(loc[w].OVM, FinalizerOrphanDependents))
    /\ ~(errorsMatch(loc[w].OVM, loc[w].createErr) /\ stoppedMatch(loc[w].OVM))
    /\ UpdateAccepted(loc[w].OVM)
    /\ apiOvms' = (apiOvms \ {loc[w].OVM}) \cup {StatusOf(loc[w].OVM, loc[w].createErr)}
    /\ Step(w, "done", loc[w],
            << <<"Update", "ok">> >> \o TransitionEvent(loc[w].OVM))
    /\ UNCHANGED <<sidecarVars, apiVms, vmOVMInformer, vmInformer, expectations,
                   nextOvmUid, nextVmUid, worldSteps>>

\* execute: updateStatus writes the status and the write fails (a conflict, the
\* object is gone, or a transient error)
StatusWriteFails(w) ==
    /\ pc[w] = "status"
    /\ ~(loc[w].OVM.deletionTimestamp /\ HasFinalizer(loc[w].OVM, FinalizerOrphanDependents))
    /\ ~(errorsMatch(loc[w].OVM, loc[w].createErr) /\ stoppedMatch(loc[w].OVM))
    /\ Step(w, "done", [loc[w] EXCEPT !.err = ErrUpdate], << <<"Update", "failed">> >>)
    /\ UNCHANGED <<sidecarVars, apiOvms, apiVms, vmOVMInformer, vmInformer, expectations,
                   nextOvmUid, nextVmUid, worldSteps>>

\* Execute: the deferred Queue.Done
Done(w) ==
    /\ pc[w] = "done"
    /\ Queue' = QueueDone(Queue, loc[w].key)
    /\ pc' = [pc EXCEPT ![w] = "idle"]
    /\ loc' = [loc EXCEPT ![w] = NoLocals]
    /\ ops' = [ops EXCEPT ![w] = << >>]
    /\ UNCHANGED <<sidecarVars, apiOvms, apiVms, vmOVMInformer, vmInformer, expectations,
                   nextOvmUid, nextVmUid, worldSteps>>

(***************************************************************************)
(* The world around the controller: users and the other subsystems that     *)
(* write to the object store.                                               *)
(***************************************************************************)
ExternalVmNames == {"x"}

\* one of the world's steps
WorldStep ==
    /\ worldSteps < MaxWorldSteps
    /\ worldSteps' = worldSteps + 1

\* the time to live of an unfulfilled expectation has passed
ExpectationsExpire(key) ==
    /\ WorldStep
    /\ expectations[key].present
    /\ ~SatisfiedExpectations(expectations, key)
    /\ expectations' = [expectations EXCEPT ![key].expired = TRUE]
    /\ UNCHANGED <<sidecarVars, apiOvms, apiVms, vmOVMInformer, vmInformer, Queue,
                   nextOvmUid, nextVmUid, pc, loc, ops>>

UserCreatesOvm(n) ==
    /\ WorldStep
    /\ ByName(apiOvms, n) = {}
    /\ nextOvmUid <= MaxOvmUid
    /\ \E r \in BOOLEAN :
        apiOvms' = apiOvms \cup {NewOvm(n, nextOvmUid, r, ValidShape)}
    /\ nextOvmUid' = nextOvmUid + 1
    /\ UNCHANGED <<sidecarVars, apiVms, vmOVMInformer, vmInformer, Queue, expectations,
                   nextVmUid, pc, loc, ops>>

UserSetsRunning(n) ==
    /\ WorldStep
    /\ \E o \in ByName(apiOvms, n) :
        /\ ~o.deletionTimestamp
        /\ apiOvms' = (apiOvms \ {o}) \cup {[o EXCEPT !.running = ~@]}
    /\ UNCHANGED <<sidecarVars, apiVms, vmOVMInformer, vmInformer, Queue, expectations,
                   nextOvmUid, nextVmUid, pc, loc, ops>>

\* a delete that asks for the dependents to be orphaned: the object stays, marked
UserDeletesOvmOrphaning(n) ==
    /\ WorldStep
    /\ \E o \in ByName(apiOvms, n) :
        /\ ~o.deletionTimestamp
        /\ apiOvms' = (apiOvms \ {o}) \cup
                        {[o EXCEPT !.deletionTimestamp = TRUE,
                                   !.finalizers = @ \cup {FinalizerOrphanDependents}]}
    /\ UNCHANGED <<sidecarVars, apiVms, vmOVMInformer, vmInformer, Queue, expectations,
                   nextOvmUid, nextVmUid, pc, loc, ops>>

\* the end of a delete: the finalizers are gone and the object leaves the store
OvmRemoved(n) ==
    /\ \E o \in ByName(apiOvms, n) :
        /\ o.deletionTimestamp
        /\ apiOvms' = apiOvms \ {o}
    /\ UNCHANGED <<sidecarVars, apiVms, vmOVMInformer, vmInformer, Queue, expectations,
                   nextOvmUid, nextVmUid, pc, loc, ops, worldSteps>>

ExternalCreatesVm(n) ==
    /\ WorldStep
    /\ ByName(apiVms, n) = {}
    /\ nextVmUid <= MaxVmUid
    /\ apiVms' = apiVms \cup {NewVm(n, nextVmUid, AppLabels, {})}
    /\ nextVmUid' = nextVmUid + 1
    /\ UNCHANGED <<sidecarVars, apiOvms, vmOVMInformer, vmInformer, Queue, expectations,
                   nextOvmUid, pc, loc, ops>>

\* a user takes a VirtualMachine out of the selector's reach
ExternalRelabelsVm(n) ==
    /\ WorldStep
    /\ \E v \in ByName(apiVms, n) :
        /\ v.labels # OtherLabels
        /\ apiVms' = (apiVms \ {v}) \cup
                        {[v EXCEPT !.labels = OtherLabels, !.resourceVersion = 1]}
    /\ UNCHANGED <<sidecarVars, apiOvms, vmOVMInformer, vmInformer, Queue, expectations,
                   nextOvmUid, nextVmUid, pc, loc, ops>>

VmBecomesFinal(n) ==
    /\ WorldStep
    /\ \E v \in ByName(apiVms, n) :
        /\ ~v.final
        /\ apiVms' = (apiVms \ {v}) \cup {[v EXCEPT !.final = TRUE, !.resourceVersion = 1]}
    /\ UNCHANGED <<sidecarVars, apiOvms, vmOVMInformer, vmInformer, Queue, expectations,
                   nextOvmUid, nextVmUid, pc, loc, ops>>

\* a VirtualMachine marked for deletion is taken down and leaves the store
VmRemoved(n) ==
    /\ \E v \in ByName(apiVms, n) :
        /\ v.deletionTimestamp
        /\ apiVms' = apiVms \ {v}
    /\ UNCHANGED <<sidecarVars, apiOvms, vmOVMInformer, vmInformer, Queue, expectations,
                   nextOvmUid, nextVmUid, pc, loc, ops, worldSteps>>

(***************************************************************************)
(* The specification.  The controller starts against a store that holds an *)
(* OfflineVirtualMachine and may hold a VirtualMachine that nobody owns;    *)
(* its informers have synced, and the add callback has queued the key.      *)
(***************************************************************************)
InitialVms == {{}} \cup {{Delivered(NewVm(n, 1, AppLabels, {}))} : n \in ExternalVmNames}

Init ==
    /\ apiOvms \in {{NewOvm(n, 1, r, ValidShape)} : n \in OvmNames, r \in BOOLEAN}
    /\ apiVms \in InitialVms
    /\ vmOVMInformer = apiOvms
    /\ vmInformer = apiVms
    /\ Queue = enqueueEach([Queue |-> EmptyQueue], apiOvms).Queue
    /\ expectations = [k \in Keys |-> NoExpectation]
    /\ nextOvmUid = 2
    /\ nextVmUid = Cardinality(apiVms) + 1
    /\ pc = [w \in Workers |-> "idle"]
    /\ loc = [w \in Workers |-> NoLocals]
    /\ ops = [w \in Workers |-> << >>]
    /\ worldSteps = 0
    /\ vmi = NoVmi
    /\ config = NoConfig
    /\ sidecarList = NotCalled

Worker(w) ==
    \/ Get(w) \/ Lookup(w) \/ LookupFails(w) \/ List(w) \/ ListFails(w)
    \/ Claim(w) \/ StartStop(w)
    \/ CreateSucceeds(w) \/ CreateFails(w) \/ DeleteSucceeds(w) \/ DeleteFails(w)
    \/ Orphan(w) \/ StatusUnchanged(w) \/ StatusWritten(w) \/ StatusWriteFails(w)
    \/ Done(w)

Informers ==
    \/ \E n \in VmNames :
        VmInformerAdd(n) \/ VmInformerUpdate(n) \/ VmInformerResync(n) \/ VmInformerDelete(n)
    \/ \E n \in OvmNames :
        \/ OvmInformerAdd(n) \/ OvmInformerUpdate(n) \/ OvmInformerDelete(n)
        \/ OvmInformerDeleteUnknown(n)

World ==
    \/ \E n \in OvmNames :
        UserCreatesOvm(n) \/ UserSetsRunning(n) \/ UserDeletesOvmOrphaning(n) \/ OvmRemoved(n)
    \/ \E n \in ExternalVmNames : ExternalCreatesVm(n)
    \/ \E n \in VmNames :
        ExternalRelabelsVm(n) \/ VmBecomesFinal(n) \/ VmRemoved(n)

Clocks == \E key \in Keys : ExpectationsExpire(key)

Next == (\E w \in Workers : Worker(w)) \/ Informers \/ World \/ Clocks

Spec == Init /\ [][Next]_vars

(***************************************************************************)
(* The passes over a parent that lives on, whatever conditions its status   *)
(* holds when the controller starts: no two of them of one type.  Users     *)
(* flip spec.running; the creates, deletes and status updates of the passes *)
(* succeed or fail.                                                         *)
(***************************************************************************)
RunningCondition(n) ==
    Condition(OfflineVirtualMachineRunning, "Created by OVM " \o n, "Created by OVM " \o n)
FailureCondition == Condition(OfflineVirtualMachineFailure, "FailedCreate", ErrCreate)

InitialConditions(n) ==
    { << >>, <<RunningCondition(n)>>, <<FailureCondition>>,
      <<RunningCondition(n), FailureCondition>>, <<FailureCondition, RunningCondition(n)>> }

InitStatus ==
    /\ \E n \in OvmNames :
        apiOvms \in {{[NewOvm(n, 1, r, ValidShape) EXCEPT !.conditions = c]} :
                        r \in BOOLEAN, c \in InitialConditions(n)}
    /\ apiVms \in InitialVms
    /\ vmOVMInformer = apiOvms
    /\ vmInformer = apiVms
    /\ Queue = enqueueEach([Queue |-> EmptyQueue], apiOvms).Queue
    /\ expectations = [k \in Keys |-> NoExpectation]
    /\ nextOvmUid = 2
    /\ nextVmUid = Cardinality(apiVms) + 1
    /\ pc = [w \in Workers |-> "idle"]
    /\ loc = [w \in Workers |-> NoLocals]
    /\ ops = [w \in Workers |-> << >>]
    /\ worldSteps = 0
    /\ vmi = NoVmi
    /\ config = NoConfig
    /\ sidecarList = NotCalled

NextStatus ==
    \/ \E w \in Workers :
        \/ Get(w) \/ Lookup(w) \/ List(w) \/ Claim(w) \/ StartStop(w)
        \/ CreateSucceeds(w) \/ CreateFails(w) \/ DeleteSucceeds(w) \/ DeleteFails(w)
        \/ StatusUnchanged(w) \/ StatusWritten(w) \/ StatusWriteFails(w)
        \/ Done(w)
    \/ \E n \in VmNames :
        \/ VmInformerAdd(n) \/ VmInformerUpdate(n) \/ VmInformerResync(n)
        \/ VmInformerDelete(n) \/ VmRemoved(n)
    \/ \E n \in OvmNames : OvmInformerUpdate(n) \/ UserSetsRunning(n)

SpecStatus == InitStatus /\ [][NextStatus]_vars

(***************************************************************************)
(* The passes over a parent of any shape: with or without a template, a     *)
(* selector and labels, with a selector that parses or not, that matches    *)
(* the template's labels or not.                                            *)
(***************************************************************************)
InitShapes ==
    /\ apiOvms \in {{NewOvm(n, 1, r, shape)} :
                        n \in OvmNames, r \in BOOLEAN, shape \in OvmSpecShapes}
    /\ apiVms \in InitialVms
    /\ vmOVMInformer = apiOvms
    /\ vmInformer = apiVms
    /\ Queue = enqueueEach([Queue |-> EmptyQueue], apiOvms).Queue
    /\ expectations = [k \in Keys |-> NoExpectation]
    /\ nextOvmUid = 2
    /\ nextVmUid = Cardinality(apiVms) + 1
    /\ pc = [w \in Workers |-> "idle"]
    /\ loc = [w \in Workers |-> NoLocals]
    /\ ops = [w \in Workers |-> << >>]
    /\ worldSteps = 0
    /\ vmi = NoVmi
    /\ config = NoConfig
    /\ sidecarList = NotCalled

SpecShapes == InitShapes /\ [][NextStatus]_vars

(***************************************************************************)
(* The add and delete events of one VirtualMachine, whatever it is and      *)
(* whatever the cache of the parents, the expectations and the queue hold   *)
(* when the event arrives.                                                  *)
(***************************************************************************)
\* the VirtualMachines of the events.  Their owner references: none, the controller
\* reference to the parent p with either UID, one of another kind, one to another
\* name, and a reference that is no controller reference
VmShapes ==
    LET OwnerReferenceShapes ==
            {{}} \cup {{[OvmOwnerRef(NewOvm(n, u, TRUE, ValidShape))
                            EXCEPT !.kind = k, !.controller = c]} :
                        n \in VmNames, u \in 1..MaxOvmUid,
                        k \in {OfflineVirtualMachineKind, "VirtualMachineReplicaSet"},
                        c \in BOOLEAN}
    IN  {[NewVm(n, 1, l, refs) EXCEPT !.deletionTimestamp = d] :
            n \in VmNames, l \in {AppLabels, OtherLabels}, refs \in OwnerReferenceShapes,
            d \in BOOLEAN}

\* what the expectations can hold for a key when the event of a child arrives
ExpectationShapes(childKey) ==
    {NoExpectation,
     [present |-> TRUE, adds |-> 1, dels |-> {}, expired |-> FALSE],
     [present |-> TRUE, adds |-> 0, dels |-> {}, expired |-> FALSE],
     [present |-> TRUE, adds |-> 0, dels |-> {childKey}, expired |-> FALSE]}

InitChildEvents ==
    /\ vmOVMInformer \in {{}} \cup {{NewOvm(n, u, TRUE, shape)} :
                                    n \in OvmNames, u \in 1..MaxOvmUid, shape \in OvmSpecShapes}
    /\ apiOvms = vmOVMInformer
    /\ \E v \in VmShapes :
        /\ \/ apiVms = {v} /\ vmInformer = {}
           \/ apiVms = {} /\ vmInformer = {Delivered(v)}
        /\ expectations \in [Keys -> ExpectationShapes(VirtualMachineKey(v))]
    /\ \E k \in Keys :
        Queue \in {EmptyQueue, QueueAdd(EmptyQueue, k), QueueGet(QueueAdd(EmptyQueue, k))}
    /\ nextOvmUid = MaxOvmUid + 1
    /\ nextVmUid = 2
    /\ pc = [w \in Workers |-> "idle"]
    /\ loc = [w \in Workers |-> NoLocals]
    /\ ops = [w \in Workers |-> << >>]
    /\ worldSteps = 0
    /\ vmi = NoVmi
    /\ config = NoConfig
    /\ sidecarList = NotCalled

NextChildEvents == \E n \in VmNames : VmInformerAdd(n) \/ VmInformerDelete(n)

SpecChildEvents == InitChildEvents /\ [][NextChildEvents]_vars

(***************************************************************************)
(* The calls of NetBindingPluginSidecarList, one for every                  *)
(* VirtualMachineInstance and configuration of the model.                   *)
(***************************************************************************)
InitSidecars ==
    /\ vmi \in Vmis
    /\ config \in KubeVirtConfigurations
    /\ sidecarList = NotCalled
    /\ apiOvms = {}
    /\ apiVms = {}
    /\ vmOVMInformer = {}
    /\ vmInformer = {}
    /\ Queue = EmptyQueue
    /\ expectations = [k \in Keys |-> NoExpectation]
    /\ nextOvmUid = 1
    /\ nextVmUid = 1
    /\ pc = [w \in Workers |-> "idle"]
    /\ loc = [w \in Workers |-> NoLocals]
    /\ ops = [w \in Workers |-> << >>]
    /\ worldSteps = 0

CallNetBindingPluginSidecarList ==
    /\ sidecarList = NotCalled
    /\ sidecarList' \in {{r} : r \in NetBindingPluginSidecarList(vmi, config)}
    /\ UNCHANGED <<vmi, config, ovmVars>>

NextSidecars == CallNetBindingPluginSidecarList

SpecSidecars == InitSidecars /\ [][NextSidecars]_vars

(***************************************************************************)
(* What a pass has done, read from its log.                                 *)
(***************************************************************************)
\* the pass of worker w has logged this entry
Did(w, entry) == \E i \in 1..Len(ops[w]) : ops[w][i] = entry

\* the pass of worker w has logged an entry of this operation
DidOp(w, op) == \E i \in 1..Len(ops[w]) : ops[w][i][1] = op

\* every entry of operation op in the log of w comes after the entry first
After(w, op, first) ==
    \A i \in 1..Len(ops[w]) :
        ops[w][i][1] = op => \E j \in 1..(i - 1) : ops[w][j] = first

\* the non-final VirtualMachines of the store that the parent controls
OwnedActive(o) ==
    {v \in apiVms : ~IsFinal(v) /\ GetControllerOf(v) # NilRef
                    /\ GetControllerOf(v).uid = o.uid}

\* nothing is left to do: the queue is empty, no pass is under way, the caches hold
\* what the store holds, no delete is under way and every expectation is satisfied
Quiescent ==
    /\ \A w \in Workers : pc[w] = "idle"
    /\ Queue = EmptyQueue
    /\ vmInformer = apiVms
    /\ vmOVMInformer = apiOvms
    /\ \A v \in apiVms : ~v.deletionTimestamp
    /\ \A k \in Keys : SatisfiedExpectations(expectations, k)

(***************************************************************************)
(* The properties.                                                          *)
(***************************************************************************)
\* C1: once the system is quiescent, every parent with a valid spec, running = true
\* and no deletionTimestamp has exactly one non-final child it owns.
C1_RunningHasOneChild ==
    Quiescent =>
        \A o \in apiOvms :
            (~InvalidSpec(o) /\ o.running /\ ~o.deletionTimestamp)
                => Cardinality(OwnedActive(o)) = 1

\* C2: once the system is quiescent, no parent with a valid spec, running = false
\* and no deletion in progress has a non-final child it owns.
C2_StoppedHasNoChild ==
    Quiescent =>
        \A o \in apiOvms :
            (~InvalidSpec(o) /\ ~o.running /\ ~o.deletionTimestamp)
                => OwnedActive(o) = {}

\* C3: a pass sends a create only when the set of VirtualMachines it owns after the
\* adoption is empty; with one or more of them owned it sends none.
C3_NoCreateWithOwned ==
    \A w \in Workers :
        (pc[w] = "createCall" \/ DidOp(w, "Create")) => loc[w].vms = {}

\* a pass of a running parent that owns two VirtualMachines has ended
C3_Witness ==
    \E w \in Workers :
        /\ pc[w] = "done"
        /\ loc[w].OVM.running /\ loc[w].needsSync /\ ~loc[w].OVM.deletionTimestamp
        /\ Cardinality(loc[w].vms) > 1

\* C4: every create and every delete startStop sends comes after the expectation
\* recorded for it, and the record is in the store when the call is sent.
C4_ExpectationBeforeCall ==
    \A w \in Workers :
        /\ After(w, "Create", <<"ExpectCreations", loc[w].key>>)
        /\ After(w, "Delete", <<"ExpectDeletions", loc[w].key>>)
        /\ pc[w] = "createCall" =>
                Did(w, <<"ExpectCreations", loc[w].key>>) /\ expectations[loc[w].key].present
        /\ pc[w] = "deleteCall" =>
                Did(w, <<"ExpectDeletions", loc[w].key>>) /\ expectations[loc[w].key].present

\* a pass has sent a create and the store has taken it
C4_Witness ==
    \E w \in Workers :
        /\ DidOp(w, "Create")
        /\ Did(w, <<"Event", SuccessfulCreateVirtualMachineReason>>)

\* C5: a pass whose create failed ends with the key added again with backoff.
C5_FailedCreateRequeued ==
    \A w \in Workers :
        (pc[w] = "done" /\ loc[w].createErr = ErrCreate)
            => Did(w, <<"AddRateLimited", loc[w].key>>)

\* C6: after a failed create the expected creations are back at 0, after a failed
\* delete the key of the VirtualMachine is out of the expected deletions, and the
\* expectations of the parent are satisfied again.
C6_FailedCallRolledBack ==
    \A w \in Workers :
        /\ loc[w].createErr = ErrCreate =>
                /\ Did(w, <<"CreationObserved", loc[w].key>>)
                /\ expectations[loc[w].key].adds = 0
        /\ loc[w].createErr = ErrDelete =>
                \A vm \in loc[w].vms :
                    /\ Did(w, <<"DeletionObserved", VirtualMachineKey(vm)>>)
                    /\ VirtualMachineKey(vm) \notin expectations[loc[w].key].dels
        /\ loc[w].createErr # NoErr => SatisfiedExpectations(expectations, loc[w].key)

\* a pass whose delete failed has ended
C6_Witness ==
    \E w \in Workers : pc[w] = "done" /\ loc[w].createErr = ErrDelete /\ loc[w].vms # {}

\* C7, as stated: a pass whose uncached read returns the parent with another UID
\* adopts nothing, creates nothing and returns without an error.
C7_StaleAdoptionReturnsCleanly ==
    \A w \in Workers :
        (pc[w] = "done" /\ Did(w, <<"Get", "other uid">>))
            => /\ ~DidOp(w, "Adopt") /\ ~DidOp(w, "Create")
               /\ loc[w].err = NoErr
               /\ Did(w, <<"Forget", loc[w].key>>)

\* C7, amended: a pass whose uncached read returns the parent with another UID
\* adopts nothing, sends no create, delete or status update, and returns the error of
\* the recheck, so that the key is added again with backoff; and every adoption of a
\* pass comes after a recheck of that pass that succeeded.
C7_StaleAdoptionReturnsError ==
    \A w \in Workers :
        /\ Did(w, <<"Get", "other uid">>) =>
                /\ ~DidOp(w, "Adopt") /\ ~DidOp(w, "Create")
                /\ ~DidOp(w, "Delete") /\ ~DidOp(w, "Update")
                /\ pc[w] = "done" =>
                        /\ loc[w].err = ErrRecheck
                        /\ Did(w, <<"AddRateLimited", loc[w].key>>)
        /\ After(w, "Adopt", <<"Recheck", "ok">>)

\* a pass whose uncached read returned the parent with another UID has ended
C7_Witness ==
    \E w \in Workers : pc[w] = "done" /\ Did(w, <<"Get", "other uid">>)

\* C8: a pass of a parent that is being deleted and carries the orphan finalizer,
\* once its adoption has returned without error, tries to release every
\* VirtualMachine the parent owns, sends no create, delete or status update, and
\* returns an error only for a release that failed.
C8_OrphanReleasesAll ==
    \A w \in Workers :
        (/\ pc[w] = "done"
         /\ loc[w].OVM.deletionTimestamp
         /\ HasFinalizer(loc[w].OVM, FinalizerOrphanDependents)
         /\ loc[w].err \notin {ErrRecheck, ErrPatch})
            => /\ \A vm \in loc[w].vms : Did(w, <<"Orphan", vm.name>>)
               /\ ~DidOp(w, "Create") /\ ~DidOp(w, "Delete") /\ ~DidOp(w, "Update")
               /\ loc[w].err \in {NoErr, ErrRelease}

\* C9: an update event whose two snapshots carry one resource version leaves the
\* work queue and the expectations as they are, whatever the snapshots hold.
C9_SameVersionUpdateIgnored ==
    [][(\E n \in VmNames : VmInformerResync(n)) => UNCHANGED <<Queue, expectations>>]_vars

\* the cache holds a VirtualMachine whose controller is a cached parent while the
\* queue is empty: an update that was not ignored would add the key
C9_Witness ==
    /\ Queue = EmptyQueue
    /\ \E v \in vmInformer :
            resolveControllerRef(vmOVMInformer, GetControllerOf(v)) # {}
    /\ ENABLED (\E n \in VmNames : VmInformerResync(n))

\* no two conditions of the list are of one type
NoDuplicateTypes(conditions) ==
    \A i, j \in 1..Len(conditions) : conditions[i].type = conditions[j].type => i = j

\* C10: the status of every parent in the store holds at most one condition of each
\* type, whatever the passes did and whatever list without duplicates it started from.
C10_NoDuplicateConditions ==
    \A o \in apiOvms : NoDuplicateTypes(o.conditions)

\* a pass that read a status with a condition of the type it is to add has written
\* the status
C10_Witness ==
    \E w \in Workers :
        /\ pc[w] = "done"
        /\ Did(w, <<"Update", "ok">>)
        /\ Len(loc[w].OVM.conditions) = 2
        /\ loc[w].OVM.running /\ loc[w].createErr = NoErr

(***************************************************************************)
(* NetBindingPluginSidecarList.                                             *)
(***************************************************************************)
\* the binding names the interfaces of a VirtualMachineInstance declare
DeclaredBindings(v) ==
    {n \in BindingNames : \E i \in DOMAIN v.Interfaces : n \in v.Interfaces[i].Binding}

\* the entries of the binding catalog; none when the catalog or the network
\* configuration is absent
CatalogEntries(cfg) ==
    IF cfg.NetworkConfiguration = {} THEN << >>
    ELSE LET nc == CHOOSE x \in cfg.NetworkConfiguration : TRUE
         IN  IF nc.Binding = {} THEN << >> ELSE CHOOSE c \in nc.Binding : TRUE

SidecarsWithImage(list, image) == Cardinality({i \in DOMAIN list : list[i].Image = image})

\* C11: NetBindingPluginSidecarList returns an error and no sidecar list if and only
\* if some interface declares a binding whose name the catalog of the configuration
\* does not hold (an absent catalog or network configuration holds none); otherwise
\* it returns, for every image, as many sidecars as there are distinct declared
\* binding names whose catalog entry has that image, and none for the empty image.
C11_SidecarPerDistinctBinding ==
    \A r \in sidecarList :
        LET declared == DeclaredBindings(vmi)
            catalog == CatalogEntries(config)
            unknown == \E n \in declared : n \notin DOMAIN catalog
        IN  /\ (r.err # NoErr) <=> unknown
            /\ r.err # NoErr => r.pluginSidecars = << >>
            /\ r.err = NoErr =>
                \A image \in SidecarImages :
                    SidecarsWithImage(r.pluginSidecars, image) =
                        IF image = "" THEN 0
                        ELSE Cardinality({n \in declared : catalog[n].SidecarImage = image})

\* a call returned two sidecars for three interfaces: two of them declare the
\* binding a, one the binding b, and the catalog gives both names the same image
C11_Witness ==
    /\ Len(vmi.Interfaces) = 3
    /\ Cardinality({i \in DOMAIN vmi.Interfaces : vmi.Interfaces[i].Binding = {"a"}}) = 2
    /\ Cardinality({i \in DOMAIN vmi.Interfaces : vmi.Interfaces[i].Binding = {"b"}}) = 1
    /\ LET catalog == CatalogEntries(config)
       IN  /\ DOMAIN catalog = {"a", "b"}
           /\ catalog["a"].SidecarImage = "img1"
           /\ catalog["b"].SidecarImage = "img1"
    /\ \E r \in sidecarList :
        r.err = NoErr /\ r.pluginSidecars = <<[Image |-> "img1"], [Image |-> "img1"]>>

(***************************************************************************)
(* The gate of the start/stop step.                                         *)
(***************************************************************************)
\* C12: a pass is in startStop, or has issued a create or a delete of a
\* VirtualMachine, only if it found the expectations of its key satisfied and read
\* a parent without deletionTimestamp; and when it enters startStop the expectations
\* of the key are satisfied still.
C12_StartStopGated ==
    \A w \in Workers :
        /\ (pc[w] \in {"startStop", "createCall", "deleteCall"}
                \/ DidOp(w, "Create") \/ DidOp(w, "Delete"))
            => loc[w].needsSync /\ ~loc[w].OVM.deletionTimestamp
        /\ pc[w] = "startStop" => SatisfiedExpectations(expectations, loc[w].key)

\* a pass over a running parent without a VirtualMachine has skipped startStop,
\* because the expectations of its key were not satisfied
C12_Witness ==
    \E w \in Workers :
        /\ pc[w] = "status"
        /\ ~loc[w].needsSync
        /\ ~SatisfiedExpectations(expectations, loc[w].key)
        /\ loc[w].OVM.running /\ ~loc[w].OVM.deletionTimestamp
        /\ loc[w].vms = {}
        /\ ~DidOp(w, "Create")

(***************************************************************************)
(* The expectations are asked before the list is read.                      *)
(***************************************************************************)
\* the VirtualMachines of the store that the parent controls and whose add event
\* the cache has not delivered yet
CreatedUndelivered(OVM) ==
    {v \in apiVms : /\ GetControllerOf(v) # NilRef /\ GetControllerOf(v).uid = OVM.uid
                    /\ ~\E c \in vmInformer : c.name = v.name /\ c.uid = v.uid}

\* the VirtualMachines of the cache that a pass over the parent claims
CachedChildren(OVM) ==
    {c \in vmInformer : /\ GetControllerOf(c) # NilRef /\ GetControllerOf(c).uid = OVM.uid
                        /\ ~IsFinal(c) /\ SelectorMatches(OVM.selector, c.labels)}

C14_DegenerateStillWritesStatus ==
    \A w \in Workers :
        (/\ pc[w] = "done"
         /\ loc[w].err = NoErr
         /\ Cardinality(loc[w].vms) > 1
         /\ ~(loc[w].OVM.deletionTimestamp
                /\ HasFinalizer(loc[w].OVM, FinalizerOrphanDependents))
         /\ ~stoppedMatch(loc[w].OVM))
        => /\ ~DidOp(w, "Create") /\ ~DidOp(w, "Delete")
           /\ Did(w, <<"Update", "ok">>)

(***************************************************************************)
(* The Failure condition.                                                   *)
(***************************************************************************)
\* the conditions of a type that an object holds
ConditionsOfType(o, t) == {o.conditions[i] : i \in {j \in DOMAIN o.conditions : o.conditions[j].type = t}}

\* C15: a status write that succeeds after a start/stop error, over a parent without a
\* Failure condition, persists one Failure condition with status True, the error's
\* text as message and the reason FailedCreate for a running parent, FailedDelete
\* otherwise, and no Running condition; a status write that succeeds without a
\* start/stop error over a parent with a Failure condition persists no Failure
\* condition.
C15_FailureConditionFollowsError ==
    [][\A w \in Workers :
        StatusWritten(w) =>
            LET ovm == loc[w].OVM
                createErr == loc[w].createErr
            IN  \A o \in apiOvms' :
                    (o.name = ovm.name /\ o.uid = ovm.uid) =>
                        /\ (createErr # NoErr /\ ~hasCondition(ovm, OfflineVirtualMachineFailure))
                            => /\ ConditionsOfType(o, OfflineVirtualMachineFailure) =
                                    {[type |-> OfflineVirtualMachineFailure, status |-> "True",
                                      reason |-> IF ovm.running THEN "FailedCreate"
                                                 ELSE "FailedDelete",
                                      message |-> createErr]}
                               /\ ConditionsOfType(o, OfflineVirtualMachineRunning) = {}
                        /\ (createErr = NoErr /\ hasCondition(ovm, OfflineVirtualMachineFailure))
                            => ConditionsOfType(o, OfflineVirtualMachineFailure) = {}]_vars

\* a pass whose delete failed, over a stopped parent with a Running condition and no
\* Failure condition, has written the status; a Failure condition is in the store
C15_Witness ==
    \E w \in Workers :
        /\ pc[w] = "done"
        /\ Did(w, <<"Update", "ok">>)
        /\ loc[w].createErr = ErrDelete
        /\ ~loc[w].OVM.running
        /\ hasCondition(loc[w].OVM, OfflineVirtualMachineRunning)
        /\ ~hasCondition(loc[w].OVM, OfflineVirtualMachineFailure)
        /\ \E o \in apiOvms : o.uid = loc[w].OVM.uid /\ hasCondition(o, OfflineVirtualMachineFailure)

(***************************************************************************)
(* The transition events.                                                   *)
(***************************************************************************)
\* the events updateStatus sends with the messages "Running" and "Stopped"
RunningEvent == <<"Event", SuccessfulPausedReplicaSetReason>>
StoppedEvent == <<"Event", SuccessfulResumedReplicaSetReason>>

\* C16: the status step of a pass sends the event Running exactly when its update
\* succeeded and added the Running condition, and the event Stopped exactly when its
\* update succeeded and removed the Running condition; it sends no transition event
\* when the update fails or leaves the presence of the Running condition as it was.
C16_TransitionEventIffFlipped ==
    [][\A w \in Workers :
        (pc[w] = "status" /\ pc'[w] = "done") =>
            LET log == {ops'[w][i] : i \in DOMAIN ops'[w]}
                before == hasCondition(loc[w].OVM, OfflineVirtualMachineRunning)
                after == \E o \in apiOvms' :
                            /\ o.name = loc[w].OVM.name /\ o.uid = loc[w].OVM.uid
                            /\ hasCondition(o, OfflineVirtualMachineRunning)
                written == <<"Update", "ok">> \in log
            IN  /\ RunningEvent \in log <=> (written /\ ~before /\ after)
                /\ StoppedEvent \in log <=> (written /\ before /\ ~after)]_vars

(***************************************************************************)
(* No write of a status that matches.                                       *)
(***************************************************************************)
\* the parent's Running condition is there exactly if spec.running is set, and its
\* Failure condition exactly if startStop returned an error
Converged(ovm, createErr) ==
    /\ ovm.running = (ConditionsOfType(ovm, OfflineVirtualMachineRunning) # {})
    /\ (createErr # NoErr) = (ConditionsOfType(ovm, OfflineVirtualMachineFailure) # {})

\* C17: updateStatus over a parent whose Running condition is there exactly if
\* spec.running is set, and whose Failure condition exactly if startStop returned an
\* error, issues no update, sends no event and leaves the parent in the store as it
\* is: the pass returns without an error and the key is forgotten.
C17_NoWriteWhenConverged ==
    [][\A w \in Workers :
        ((StatusUnchanged(w) \/ StatusWritten(w) \/ StatusWriteFails(w))
            /\ Converged(loc[w].OVM, loc[w].createErr))
        => /\ ops'[w] = ops[w] \o << <<"Forget", loc[w].key>> >>
           /\ apiOvms' = apiOvms]_vars

\* a pass over a running parent that has its Running condition and its
\* VirtualMachine has returned without any call
C17_Witness ==
    \E w \in Workers :
        /\ pc[w] = "done"
        /\ loc[w].OVM.running
        /\ Converged(loc[w].OVM, loc[w].createErr)
        /\ Cardinality(loc[w].vms) = 1
        /\ ops[w] = << <<"Forget", loc[w].key>> >>

(***************************************************************************)
(* The errors of the caches.                                                *)
(***************************************************************************)
\* C18: a pass in which the cache lookup of the parent or the cache list of the
\* VirtualMachines returned an error issues no create, delete or status update and
\* returns the error: the key is added again with backoff and is not forgotten.
C18_CacheErrorsRequeue ==
    \A w \in Workers :
        (pc[w] = "done" /\ (Did(w, <<"GetByKey", "failed">>) \/ Did(w, <<"List", "failed">>)))
        => /\ Did(w, <<"AddRateLimited", loc[w].key>>)
           /\ ~Did(w, <<"Forget", loc[w].key>>)
           /\ ~DidOp(w, "Create") /\ ~DidOp(w, "Delete") /\ ~DidOp(w, "Update")

(***************************************************************************)
(* The events of the parents.                                               *)
(***************************************************************************)
\* C19: every add, update and delete event of a parent, a delete event that carries
\* a tombstone included, leaves the parent's key added to the queue (marked dirty,
\* to be handed out), and its handler does not fail.
C19_ParentEventsEnqueue ==
    [][\A n \in OvmNames :
        (OvmInformerAdd(n) \/ OvmInformerUpdate(n) \/ OvmInformerDelete(n)
            \/ OvmInformerDeleteUnknown(n))
        => /\ Namespace \o "/" \o n \in Queue'.dirty
           /\ ~Panicked']_vars

(***************************************************************************)
(* The add event of a VirtualMachine.                                       *)
(***************************************************************************)
\* the cached parents of the OfflineVirtualMachine kind with the name and the UID
\* of a controller reference
ReferredParents(ref) ==
    {o \in vmOVMInformer : /\ ref.kind = OfflineVirtualMachineKind
                           /\ o.name = ref.name /\ o.uid = ref.uid}

\* the cached parents whose selector matches the labels of a VirtualMachine
MatchingParents(v) ==
    {o \in vmOVMInformer : o.selector.kind = "labels" /\ o.selector.matchLabels \subseteq v.labels}

\* the queue after the keys of these parents were added to it
Enqueued(q, parents) ==
    /\ q.dirty = Queue.dirty \cup {KeyFunc(o) : o \in parents}
    /\ q.processing = Queue.processing
    /\ \A k \in q.dirty \ q.processing : \E i \in DOMAIN q.queue : q.queue[i] = k
    /\ Len(q.queue) = Cardinality((q.dirty \ q.processing) \cup {Queue.queue[i] : i \in DOMAIN Queue.queue})

C21_DeleteHandler ==
    [][\A n \in VmNames :
        VmInformerDelete(n) =>
            \A old \in ByName(vmInformer, n) :
                LET ref == GetControllerOf(old)
                    referred == ReferredParents(ref)
                IN  IF ref = NilRef \/ referred = {}
                    THEN UNCHANGED <<Queue, expectations>>
                    ELSE \A o \in referred :
                            /\ expectations' = [expectations EXCEPT ![KeyFunc(o)].dels =
                                                    @ \ {VirtualMachineKey(old)}]
                            /\ Enqueued(Queue', {o})]_vars

\* the delete event of a VirtualMachine that the cached parent controls has arrived:
\* the deletion the parent expected is observed and its key is queued
C21_Witness ==
    /\ vmInformer = {} /\ apiVms = {}
    /\ \E o \in vmOVMInformer :
        /\ expectations[KeyFunc(o)] = [present |-> TRUE, adds |-> 0, dels |-> {}, expired |-> FALSE]
        /\ Queue = QueueAdd(EmptyQueue, KeyFunc(o))

(***************************************************************************)
(* A key without a parent.                                                  *)
(***************************************************************************)
\* C22: the cache lookup of a key whose parent the cache does not hold ends the
\* pass: the expectations record of the key is deleted, nothing else is called (the
\* stores and the other records stay as they are), the pass returns without an error
\* and the key is forgotten, not added again.
C22_MissingParentForgotten ==
    [][\A w \in Workers :
        (Lookup(w) /\ ByName(vmOVMInformer, NameOfKey(loc[w].key)) = {})
        => /\ pc'[w] = "done"
           /\ loc'[w].err = NoErr
           /\ expectations'[loc[w].key] = NoExpectation
           /\ \A k \in Keys \ {loc[w].key} : expectations'[k] = expectations[k]
           /\ ops'[w] = << <<"DeleteExpectations", loc[w].key>>, <<"Forget", loc[w].key>> >>
           /\ UNCHANGED <<apiOvms, apiVms, Queue>>]_vars

\* the parent has left the cache after the controller had created its
\* VirtualMachine; the pass over its key has deleted the record and returned
C22_Witness ==
    \E w \in Workers :
        /\ pc[w] = "done"
        /\ ByName(vmOVMInformer, NameOfKey(loc[w].key)) = {}
        /\ \E v \in apiVms : v.name = NameOfKey(loc[w].key) /\ GetControllerOf(v) # NilRef
        /\ expectations[loc[w].key] = NoExpectation
        /\ ops[w] = << <<"DeleteExpectations", loc[w].key>>, <<"Forget", loc[w].key>> >>

(***************************************************************************)
(* A parent that fails the validation.                                      *)
(***************************************************************************)
\* the parent has no template, no selector or no template labels, or its selector
\* does not parse or does not match the labels of its template
Rejected(o) ==
    \/ ~o.template.present
    \/ o.selector.kind = "nil"
    \/ o.template.labels = {}
    \/ o.selector.kind = "bad"
    \/ ~(o.selector.matchLabels \subseteq o.template.labels)

\* C23: the pass over a parent without template, selector or template labels, or
\* with a selector that does not parse or does not match the template's labels, ends
\* at the validation: it creates, deletes, adopts and releases no VirtualMachine,
\* writes no status, leaves the expectations as they are and returns without an
\* error, so that the key is forgotten and not added again.
C23_InvalidSpecRejected ==
    [][\A w \in Workers :
        (Lookup(w) /\ \E o \in ByName(vmOVMInformer, NameOfKey(loc[w].key)) : Rejected(o))
        => /\ pc'[w] = "done"
           /\ loc'[w].err = NoErr
           /\ ops'[w] = << <<"Forget", loc[w].key>> >>
           /\ UNCHANGED <<apiOvms, apiVms, expectations, Queue>>]_vars

\* the pass over a running parent without a VirtualMachine, whose selector does not
\* match the labels of its template, has returned without any call
C23_Witness ==
    \E w \in Workers :
        /\ pc[w] = "done"
        /\ loc[w].OVM.running
        /\ loc[w].OVM.selector.kind = "labels"
        /\ loc[w].OVM.template.present /\ loc[w].OVM.template.labels # {}
        /\ ~(loc[w].OVM.selector.matchLabels \subseteq loc[w].OVM.template.labels)
        /\ apiVms = {}
        /\ ops[w] = << <<"Forget", loc[w].key>> >>

(***************************************************************************)
(* Running and Failure.                                                     *)
(***************************************************************************)
\* C24: of the parents that start without conditions and whose status only the
\* controller writes, none in the store has both a Running and a Failure condition;
\* and the parent a pass has written the status of has the Running condition exactly
\* if the pass read spec.running set and its startStop returned no error.
C24_RunningExcludesFailure ==
    /\ \A o \in apiOvms :
        ~(/\ ConditionsOfType(o, OfflineVirtualMachineRunning) # {}
          /\ ConditionsOfType(o, OfflineVirtualMachineFailure) # {})
    /\ \A w \in Workers :
        (pc[w] = "done" /\ Did(w, <<"Update", "ok">>)) =>
            \A o \in apiOvms :
                (o.name = loc[w].OVM.name /\ o.uid = loc[w].OVM.uid) =>
                    ((ConditionsOfType(o, OfflineVirtualMachineRunning) # {})
                        <=> (loc[w].OVM.running /\ loc[w].createErr = NoErr))

\* a pass over a running parent with a Failure condition has created the
\* VirtualMachine and written the status: the Failure condition is gone from the
\* store and the Running condition is there
C24_Witness ==
    \E w \in Workers :
        /\ pc[w] = "done"
        /\ Did(w, <<"Update", "ok">>)
        /\ DidOp(w, "Create")
        /\ loc[w].OVM.running /\ loc[w].createErr = NoErr
        /\ ConditionsOfType(loc[w].OVM, OfflineVirtualMachineFailure) # {}
        /\ \E o \in apiOvms :
            /\ o.uid = loc[w].OVM.uid
            /\ ConditionsOfType(o, OfflineVirtualMachineRunning) # {}
            /\ ConditionsOfType(o, OfflineVirtualMachineFailure) = {}

====
